---- MODULE Spec2Model ----
(***************************************************************************)
(* Trade ingestion and position ledger of the Polymarket tracker backend.  *)
(*                                                                         *)
(* The state is the relational store (tables markets, trades, traders,     *)
(* trader_positions, alerts) plus the position of every asynchronous       *)
(* handler between two awaited statements:                                 *)
(*   - server.js storeTrade, run by the startup sync and by the cron sync; *)
(*   - the fetch-trades edge function's ingestion loop;                    *)
(*   - the sync-resolutions edge function.                                 *)
(* One action is one awaited statement of a handler, so that the           *)
(* interleavings the event loop allows are the interleavings of the model. *)
(*                                                                         *)
(* Numbers.  Money is counted in cents (DECIMAL(20,2)), prices and shares  *)
(* in 1/10000 (DECIMAL(10,4), DECIMAL(20,4)).  JavaScript's double         *)
(* arithmetic is modelled by exact rational arithmetic; the value is       *)
(* rounded half-up to the column's scale when it is stored, which is what  *)
(* PostgreSQL does.  Intermediate products exceed 32 bits, so they are     *)
(* computed on little-endian sequences of limbs ("Big" numbers).           *)
(***************************************************************************)
EXTENDS Integers, Sequences, FiniteSets, TLC

\* ------------------------------------------------------------ bounds
\* Trade deliveries (storeTrade calls plus fetch-trades iterations) per run.
MaxDeliveries == 3
\* Failed statements and process crashes per run.
MaxFailures == 1
\* Invocations of the sync-resolutions function per run.
MaxSyncRuns == 1
\* Runs of the trader-stats cron job.
MaxStatsRuns == 2

\* --------------------------------------------------- program constants
\* amount DECIMAL(20, 2): stored money has 2 decimals.
CentScale == 100
\* price DECIMAL(10, 4), avg_price DECIMAL(10, 4).
PriceScale == 10000
\* shares DECIMAL(20, 4).
ShareScale == 10000
\* server.js checkForAlerts
WHALE_THRESHOLD == 10000
MEGA_WHALE_THRESHOLD == 50000
\* fetch-trades/index.ts
EdgeWhaleThreshold == 10000
EdgeMegaWhaleThreshold == 50000
EdgeTinyTrade == 100
\* sync-resolutions/index.ts: maxPrice > 0.9, in 1/10000.
WinnerPriceFloor == 9000

\* ------------------------------------------------------ Big naturals
\* A natural number as its limbs, least significant first, no leading zero
\* limb; <<>> is 0.
Limb == 100 * 100

RECURSIVE BigOf(_)
BigOf(n) == IF n = 0 THEN <<>> ELSE <<n % Limb>> \o BigOf(n \div Limb)

RECURSIVE BigToInt(_)
BigToInt(a) == IF a = <<>> THEN 0 ELSE Head(a) + Limb * BigToInt(Tail(a))

RECURSIVE BigMulCarry(_, _, _)
BigMulCarry(a, k, carry) ==
  IF a = <<>> THEN BigOf(carry)
  ELSE LET v == Head(a) * k + carry
       IN  <<v % Limb>> \o BigMulCarry(Tail(a), k, v \div Limb)

\* a * k for a small natural k (k * Limb must fit an integer).
BigMul(a, k) == IF k = 0 THEN <<>> ELSE BigMulCarry(a, k, 0)

RECURSIVE BigAddCarry(_, _, _)
BigAddCarry(a, b, carry) ==
  IF a = <<>> /\ b = <<>> THEN BigOf(carry)
  ELSE LET x == IF a = <<>> THEN 0 ELSE Head(a)
           y == IF b = <<>> THEN 0 ELSE Head(b)
           v == x + y + carry
       IN  <<v % Limb>> \o BigAddCarry(IF a = <<>> THEN <<>> ELSE Tail(a),
                                       IF b = <<>> THEN <<>> ELSE Tail(b),
                                       v \div Limb)

BigAdd(a, b) == BigAddCarry(a, b, 0)

RECURSIVE BigLessFrom(_, _, _)
\* a < b for two numbers of the same length, deciding at limb i and below.
BigLessFrom(a, b, i) ==
  IF i = 0 THEN FALSE
  ELSE IF a[i] # b[i] THEN a[i] < b[i]
  ELSE BigLessFrom(a, b, i - 1)

BigLess(a, b) ==
  IF Len(a) # Len(b) THEN Len(a) < Len(b) ELSE BigLessFrom(a, b, Len(a))

BigLeq(a, b) == ~BigLess(b, a)

RECURSIVE BigDivSmallFrom(_, _, _, _)
\* Long division of a by the small natural d, from limb i down, with the
\* remainder rem carried in: <<quotient as an integer, remainder>>.
BigDivSmallFrom(a, d, i, acc) ==
  IF i = 0 THEN acc
  ELSE LET v == acc[2] * Limb + a[i]
       IN  BigDivSmallFrom(a, d, i - 1, <<acc[1] * Limb + v \div d, v % d>>)

\* <<a \div d, a % d>> for a Big a whose quotient fits an integer.
BigDivSmall(a, d) == BigDivSmallFrom(a, d, Len(a), <<0, 0>>)

RECURSIVE BigQuotSearch(_, _, _, _)
\* The largest q in lo..hi with q * d <= n (lo satisfies it).
BigQuotSearch(n, d, lo, hi) ==
  IF lo = hi THEN lo
  ELSE LET mid == (lo + hi + 1) \div 2
       IN  IF BigLeq(BigMul(d, mid), n)
           THEN BigQuotSearch(n, d, mid, hi)
           ELSE BigQuotSearch(n, d, lo, mid - 1)

\* n / d rounded half-up to an integer, for a quotient of at most hi.
BigRoundDiv(n, d, hi) == BigQuotSearch(BigAdd(BigMul(n, 2), d), BigMul(d, 2), 0, hi)

\* n / d rounded half-up, small d.
RoundDivSmall(n, d) == BigDivSmall(BigAdd(BigMul(n, 2), BigOf(d)), 2 * d)[1]

RECURSIVE BigSubBorrow(_, _, _)
BigSubBorrow(a, b, borrow) ==
  IF a = <<>> THEN <<>>
  ELSE LET y == (IF b = <<>> THEN 0 ELSE Head(b)) + borrow
           v == IF Head(a) >= y THEN Head(a) - y ELSE Head(a) + Limb - y
       IN  <<v>> \o BigSubBorrow(Tail(a), IF b = <<>> THEN <<>> ELSE Tail(b),
                                 IF Head(a) >= y THEN 0 ELSE 1)

RECURSIVE BigTrim(_)
\* a without its leading zero limbs.
BigTrim(a) ==
  IF a = <<>> THEN <<>>
  ELSE IF a[Len(a)] = 0 THEN BigTrim(SubSeq(a, 1, Len(a) - 1))
  ELSE a

\* a - b for a >= b.
BigSub(a, b) == BigTrim(BigSubBorrow(a, b, 0))

RECURSIVE BigTimes(_, _)
\* a * n for any natural n.
BigTimes(a, n) ==
  IF n < Limb THEN BigMul(a, n)
  ELSE BigAdd(BigMul(a, n % Limb), BigMul(BigTimes(a, n \div Limb), Limb))

RECURSIVE BigQuotFrom(_, _, _, _, _)
\* Long division of a by the small natural d, from limb i down, with the
\* quotient's limbs q and the remainder rem so far.
BigQuotFrom(a, d, i, q, rem) ==
  IF i = 0 THEN BigTrim(q)
  ELSE LET v == rem * Limb + a[i]
       IN  BigQuotFrom(a, d, i - 1, <<v \div d>> \o q, v % d)

\* a / d rounded half-up, as a Big, for a small natural d.
BigRoundQuot(a, d) ==
  LET n == BigAdd(BigMul(a, 2), BigOf(d))
  IN  BigQuotFrom(n, 2 * d, Len(n), <<>>, 0)

\* A signed number: the excess of gain over loss.
Signed(gain, loss) ==
  IF BigLess(gain, loss) THEN [neg |-> TRUE, abs |-> BigSub(loss, gain)]
  ELSE [neg |-> FALSE, abs |-> BigSub(gain, loss)]

\* ------------------------------------------------------------ universe
TraderIds == {"T1", "T2"}
MarketIds == {"M1", "M2"}
\* The two invocations of storeTrade's loop that can overlap: the initial
\* sync of startServer and the every-minute cron job.
Workers == {"startup", "cron"}

\* A feed record.  amount, price, timestamp are what the subgraph feed of
\* server.js carries; size, price, timestamp what the data API of fetch-trades
\* carries (size in 1/100 of a share).  amount is in cents, price in 1/10000.
Trade(id, trader, market, outcome, amount, price, timestamp, size) ==
  [id |-> id, trader |-> trader, market |-> market, outcome |-> outcome,
   amount |-> amount, price |-> price, timestamp |-> timestamp, size |-> size]

NoTrade == Trade("none", "none", "none", "none", 0, 1, 0, 0)

\* The trades the feeds deliver, in any order and any number of times.
Feed ==
  { Trade("tx1", "T1", "M1", "Yes", 500000, 4000, 2, 1250000),
    Trade("tx2", "T1", "M1", "Yes", 300000, 6000, 1, 500000),
    Trade("tx3", "T1", "M1", "Yes", 5000, 3000, 3, 16667),
    Trade("tx4", "T2", "M2", "No", 5000000, 10000, 4, 5000000) }

\* Trades on one key with quotients that do not end within 4 decimals.
SerialFeed ==
  { Trade("tx1", "T1", "M1", "Yes", 500000, 4000, 2, 1250000),
    Trade("tx2", "T1", "M1", "Yes", 300000, 6000, 1, 500000),
    Trade("tx3", "T1", "M1", "Yes", 5000, 3000, 3, 16667),
    Trade("tx5", "T1", "M1", "Yes", 10000, 7000, 5, 14286),
    Trade("tx6", "T1", "M1", "Yes", 123456, 9999, 6, 123468),
    Trade("tx4", "T2", "M2", "No", 5000000, 10000, 4, 5000000) }

\* Trades whose amounts are the boundary values of the alert thresholds:
\* 9999.99, 10000, 49999.99, 50000, and 10000 as 20000 shares at 0.5.
BoundaryFeed ==
  { Trade("b1", "T1", "M1", "Yes", 999999, 10000, 1, 999999),
    Trade("b2", "T1", "M1", "Yes", 1000000, 10000, 2, 1000000),
    Trade("b3", "T1", "M1", "No", 4999999, 10000, 3, 4999999),
    Trade("b4", "T2", "M1", "No", 5000000, 10000, 4, 5000000),
    Trade("b5", "T2", "M1", "Yes", 1000000, 5000, 5, 2000000) }

\* One valid record, one with a price over 1, one with a price of 0 and one
\* with an amount of 0.
ValidationFeed ==
  { Trade("v1", "T1", "M1", "Yes", 500000, 4000, 1, 1250000),
    Trade("v2", "T1", "M1", "Yes", 150000, 15000, 2, 100000),
    Trade("v3", "T2", "M1", "No", 500000, 0, 3, 100000),
    Trade("v4", "T2", "M2", "No", 0, 5000, 4, 0) }

VARIABLES
  markets,           \* table markets: id -> row
  trades,            \* table trades: tx_hash -> row
  traders,           \* table traders: address -> row
  trader_positions,  \* table trader_positions: the rows, by SERIAL id
  alerts,            \* table alerts: the rows, by SERIAL id
  pc,                \* per worker: the statement storeTrade awaits next
  cur,               \* per worker: the trade storeTrade was called with
  sel,               \* per worker: result.rows of updateTraderPosition's SELECT
  epc,               \* fetch-trades: the statement its loop body awaits next
  ecur,              \* fetch-trades: the trade of the current iteration
  deliveries,        \* trades handed to an ingestion path so far
  failures,          \* statements failed and crashes so far
  spc,               \* sync-resolutions: the step it is in
  todo,              \* sync-resolutions: the markets its current loop has left
  syncs,             \* sync-resolutions invocations so far
  hist,              \* history: per trade id, the traders upserts and the
                     \* position writes of storeTrade that took effect
  statsJob,          \* the trader-stats cron job: the statement it awaits
                     \* next, the rows its loop has left, the address and
                     \* the stats of the calculateTraderStats call in flight
  pmMarket           \* sync-resolutions: the record the last lookup got

vars == <<markets, trades, traders, trader_positions, alerts, pc, cur, sel,
          epc, ecur, deliveries, failures, spc, todo, syncs, hist, statsJob,
          pmMarket>>

db == <<markets, trades, traders, trader_positions, alerts>>

\* ------------------------------------------------------------- helpers
NULL == <<>>

\* amount * 10^6 for an amount in cents: the amount in 10^-8 currency units,
\* the unit of shares (10^-4) times price (10^-4).
AmountE8(amount) ==
  BigMul(BigMul(BigOf(amount), PriceScale), ShareScale \div CentScale)

\* server.js:266  shares = amount / price, as DECIMAL(20,4) stores it.
TradeShares(t) == RoundDivSmall(AmountE8(t.amount), t.price)

\* Line 271 with the trade's shares replacing the position's.
NewShares_LastWriter(position, t) == TradeShares(t)

\* server.js:271  newShares = position.shares + shares, as stored.
NewShares(position, t) == position.shares + TradeShares(t)

\* Line 272 with the two prices averaged without their weights.
NewAvgPrice_Unweighted(position, t) == (position.avg_price + t.price) \div 2

\* server.js:272  newAvgPrice = (position.shares * position.avg_price
\*                               + shares * price) / newShares, as stored.
\* shares * price is the amount; newShares is taken before it is rounded.
NewAvgPrice(position, t) ==
  LET cost  == BigAdd(BigMul(BigOf(position.shares), position.avg_price),
                      AmountE8(t.amount))
      quant == BigAdd(BigMul(BigOf(position.shares), t.price),
                      AmountE8(t.amount))
      top   == IF position.avg_price > t.price THEN position.avg_price
               ELSE t.price
  IN  BigRoundDiv(BigMul(cost, t.price), quant, top)

\* Lines 258-262 without status = 'open'.
OpenPositions_AnyStatus(positions, t) ==
  { i \in DOMAIN positions :
      /\ positions[i].trader_address = t.trader
      /\ positions[i].market_id = t.market
      /\ positions[i].outcome = t.outcome }

\* Lines 258-262 without the conditions on the key.
OpenPositions_AnyKey(positions, t) ==
  { i \in DOMAIN positions : positions[i].status = "open" }

\* The rows of trader_positions the SELECT of updateTraderPosition matches.
OpenPositions(positions, t) ==
  { i \in DOMAIN positions :
      /\ positions[i].trader_address = t.trader
      /\ positions[i].market_id = t.market
      /\ positions[i].outcome = t.outcome
      /\ positions[i].status = "open" }

\* server.js:282-286  the row INSERT INTO trader_positions creates; status,
\* resolved and profit_loss take the column defaults of the table.
NewPosition(t) ==
  [trader_address |-> t.trader, market_id |-> t.market, outcome |-> t.outcome,
   shares |-> TradeShares(t), avg_price |-> t.price,
   status |-> "open", resolved |-> FALSE, profit_loss |-> NULL]

\* server.js:214-227  the row INSERT INTO trades creates.
TradeRow(t) ==
  [market_id |-> t.market, trader_address |-> t.trader, outcome |-> t.outcome,
   amount |-> t.amount, price |-> t.price, timestamp |-> t.timestamp]

\* server.js:230-243  the traders upsert.
UpsertTrader(tbl, t) ==
  IF t.trader \in DOMAIN tbl
  THEN [tbl EXCEPT ![t.trader] =
          [@ EXCEPT !.total_volume = @ + t.amount,
                    !.total_bets = @ + 1,
                    !.last_activity = t.timestamp]]
  ELSE tbl @@ (t.trader :>
          [total_volume |-> t.amount, total_bets |-> 1, wins |-> 0,
           losses |-> 0, profit_loss |-> 0, last_activity |-> t.timestamp])

\* Lines 305-306 with the thresholds exclusive.
AlertType_Exclusive(amount) ==
  IF amount > MEGA_WHALE_THRESHOLD * CentScale THEN "mega_whale"
  ELSE IF amount > WHALE_THRESHOLD * CentScale THEN "whale"
  ELSE "none"

\* server.js:294-328  the alert type checkForAlerts inserts for an amount in
\* cents, or "none".
AlertType(amount) ==
  IF amount >= MEGA_WHALE_THRESHOLD * CentScale THEN "mega_whale"
  ELSE IF amount >= WHALE_THRESHOLD * CentScale THEN "whale"
  ELSE "none"

\* A row of alerts.  The table has no trade column; tx records, for the
\* properties only, the trade the row was inserted for.
AlertRow(type, t, amount) ==
  [type |-> type, trader_address |-> t.trader, market_id |-> t.market,
   amount |-> amount, tx |-> t.id]

\* fetch-trades:40  amount = size * price, exactly: whole cents and the
\* fraction of a cent left over, in 1/PriceScale of a cent.
EdgeAmount(t) ==
  LET q == t.size \div PriceScale
      r == t.size % PriceScale
  IN  [cents |-> q * t.price + (r * t.price) \div PriceScale,
       frac  |-> (r * t.price) % PriceScale]

\* amount >= n for an exact amount and a whole number n of currency units.
AtLeast(a, n) == a.cents >= n * CentScale

\* An exact amount as a DECIMAL(20,2) column stores it.
StoredAmount(a) == a.cents + (IF 2 * a.frac >= PriceScale THEN 1 ELSE 0)

\* fetch-trades:46-54  the row the trades upsert writes.
EdgeTradeRow(t) ==
  [market_id |-> t.market, trader_address |-> t.trader, outcome |-> t.outcome,
   amount |-> StoredAmount(EdgeAmount(t)), price |-> t.price,
   timestamp |-> t.timestamp]

\* fetch-trades:60-68  the traders upsert: on conflict the columns given are
\* overwritten by the values given, the others kept.
EdgeUpsertTrader(tbl, t) ==
  IF t.trader \in DOMAIN tbl
  THEN [tbl EXCEPT ![t.trader] =
          [@ EXCEPT !.total_volume = StoredAmount(EdgeAmount(t)),
                    !.total_bets = 1,
                    !.last_activity = t.timestamp]]
  ELSE tbl @@ (t.trader :>
          [total_volume |-> StoredAmount(EdgeAmount(t)), total_bets |-> 1,
           wins |-> 0, losses |-> 0, profit_loss |-> 0,
           last_activity |-> t.timestamp])

\* fetch-trades:71-73  the alert type inserted for an exact amount, or "none".
EdgeAlertType(a) ==
  IF AtLeast(a, EdgeWhaleThreshold)
  THEN IF AtLeast(a, EdgeMegaWhaleThreshold) THEN "mega_whale" ELSE "whale"
  ELSE "none"

\* What the gamma API says of one market.  outcomePrices and outcomes are
\* JSON strings: absent (null or empty), garbage (JSON.parse throws) or the
\* text of an array, given by its elements; a price is what parseFloat makes
\* of the element, in 1/10000, and -1 stands for NaN (no comparison with NaN
\* holds, as none of -1 > maxPrice does for maxPrice >= 0).
Json(kind, v) == [kind |-> kind, v |-> v]
Absent == Json("absent", <<>>)
GammaMarket(closed, outcomePrices, outcomes) ==
  [closed |-> closed, outcomePrices |-> outcomePrices, outcomes |-> outcomes]

\* No lookup has answered in this invocation.
NoGammaMarket == GammaMarket(FALSE, Absent, Absent)

GammaMarkets ==
  { GammaMarket(FALSE, Absent, Absent),
    GammaMarket(TRUE, Absent, Absent),
    GammaMarket(TRUE, Json("array", <<10000, 0>>), Absent),
    GammaMarket(TRUE, Json("array", <<0, 10000>>), Json("array", <<"Yes", "No">>)),
    GammaMarket(TRUE, Json("array", <<5000, 5000>>), Json("array", <<"Yes", "No">>)) }

\* The gamma records the winner derivation is exercised on: those above and
\* prices at and just over the 0.9 bar, texts JSON.parse throws on, a NaN
\* element, an empty array, other labels than Yes and No, more prices than
\* labels, and an open market that already shows a price of 1.
YesNo == Json("array", <<"Yes", "No">>)
Garbage == Json("garbage", <<>>)
WinnerCases ==
  GammaMarkets \cup
  { GammaMarket(TRUE, Json("array", <<9000, 1000>>), YesNo),
    GammaMarket(TRUE, Json("array", <<9001, 999>>), YesNo),
    GammaMarket(TRUE, Garbage, YesNo),
    GammaMarket(TRUE, Json("array", <<0, 10000>>), Garbage),
    GammaMarket(TRUE, Json("array", <<-1, 10000>>), YesNo),
    GammaMarket(TRUE, Json("array", <<>>), YesNo),
    GammaMarket(TRUE, Json("array", <<0, 10000>>), Json("array", <<"Over", "Under">>)),
    GammaMarket(TRUE, Json("array", <<0, 0, 10000>>), YesNo),
    GammaMarket(FALSE, Json("array", <<10000, 0>>), YesNo) }

RECURSIVE MaxPriceFrom(_, _, _)
\* sync-resolutions:61-69  the loop over prices from index i (1-based here),
\* with acc = <<maxPrice, maxIdx>>.
MaxPriceFrom(prices, i, acc) ==
  IF i > Len(prices) THEN acc
  ELSE MaxPriceFrom(prices, i + 1,
                    IF prices[i] > acc[1] THEN <<prices[i], i>> ELSE acc)

\* The derivation with the bar met by a price of exactly 0.9.
WinningOutcome_AtLeast(pm) ==
  IF pm.outcomePrices.kind = "absent" THEN "NULL"
  ELSE IF pm.outcomePrices.kind = "garbage" \/ pm.outcomes.kind = "garbage"
  THEN "NULL"
  ELSE LET prices   == pm.outcomePrices.v
           outcomes == IF pm.outcomes.kind = "absent" THEN <<"Yes", "No">>
                       ELSE pm.outcomes.v
           max      == MaxPriceFrom(prices, 1, <<0, 1>>)
       IN  IF max[1] >= WinnerPriceFloor
           THEN IF max[2] \in DOMAIN outcomes THEN outcomes[max[2]]
                ELSE "undefined"
           ELSE "NULL"

\* sync-resolutions:54-77 and 122-142  winningOutcome of a closed market:
\* "NULL", a label, or "undefined" when outcomes has no element at maxIdx.
WinningOutcome(pm) ==
  IF pm.outcomePrices.kind = "absent" THEN "NULL"
  ELSE IF pm.outcomePrices.kind = "garbage" \/ pm.outcomes.kind = "garbage"
  THEN "NULL"
  ELSE LET prices   == pm.outcomePrices.v
           outcomes == IF pm.outcomes.kind = "absent" THEN <<"Yes", "No">>
                       ELSE pm.outcomes.v
           max      == MaxPriceFrom(prices, 1, <<0, 1>>)
       IN  IF max[1] > WinnerPriceFloor
           THEN IF max[2] \in DOMAIN outcomes THEN outcomes[max[2]]
                ELSE "undefined"
           ELSE "NULL"

\* sync-resolutions:79-87 and 145-153  the markets update .eq('id', id): no
\* row, no change; a winning_outcome of undefined is left out of the request
\* and the column keeps its value.
ResolveMarket(tbl, id, pm) ==
  IF id \notin DOMAIN tbl THEN tbl
  ELSE [tbl EXCEPT ![id] =
          [resolved |-> TRUE,
           winning_outcome |-> IF WinningOutcome(pm) = "undefined"
                               THEN @.winning_outcome
                               ELSE WinningOutcome(pm)]]

\* server.js:540-547  the trader-stats job between two runs.  stats is
\* result.rows[0] of calculateTraderStats: <<total_positions, wins, losses,
\* total_profit_loss>>.
IdleJob ==
  [pc |-> "idle", rows |-> {}, address |-> "none", stats |-> <<>>, runs |-> 0]

RECURSIVE SumProfitLoss(_, _)
\* SUM(profit_loss) over the rows ids of positions: NULL if every
\* profit_loss is NULL, else the sum of the others in a 1-tuple.
SumProfitLoss(positions, ids) ==
  IF ids = {} THEN NULL
  ELSE LET i    == CHOOSE x \in ids : TRUE
           rest == SumProfitLoss(positions, ids \ {i})
       IN  IF positions[i].profit_loss = NULL THEN rest
           ELSE IF rest = NULL THEN positions[i].profit_loss
           ELSE <<rest[1] + positions[i].profit_loss[1]>>

\* Line 337 with a profit_loss of 0 counted as a win.
PositionStats_ZeroWins(positions, address) ==
  LET ids == { i \in DOMAIN positions :
                 /\ positions[i].trader_address = address
                 /\ positions[i].resolved }
      pl(i) == positions[i].profit_loss
  IN  <<Cardinality(ids),
        Cardinality({i \in ids : pl(i) # NULL /\ pl(i)[1] >= 0}),
        Cardinality({i \in ids : pl(i) # NULL /\ pl(i)[1] < 0}),
        SumProfitLoss(positions, ids)>>

\* server.js:334-343  the SELECT of calculateTraderStats: <<total_positions,
\* wins, losses, total_profit_loss>> over the trader's rows with
\* resolved = TRUE.
PositionStats(positions, address) ==
  LET ids == { i \in DOMAIN positions :
                 /\ positions[i].trader_address = address
                 /\ positions[i].resolved }
      pl(i) == positions[i].profit_loss
  IN  <<Cardinality(ids),
        Cardinality({i \in ids : pl(i) # NULL /\ pl(i)[1] > 0}),
        Cardinality({i \in ids : pl(i) # NULL /\ pl(i)[1] < 0}),
        SumProfitLoss(positions, ids)>>

\* Lines 348-351 with the stats added to the columns.
TraderStatsRow_Incremented(row, stats) ==
  [row EXCEPT !.wins = @ + stats[2], !.losses = @ + stats[3],
              !.profit_loss = IF stats[4] = NULL THEN "NaN"
                              ELSE @ + stats[4][1]]

\* server.js:347-359  the row of traders after the UPDATE; parseFloat of a
\* NULL sum is NaN.
TraderStatsRow(row, stats) ==
  [row EXCEPT !.wins = stats[2], !.losses = stats[3],
              !.profit_loss = IF stats[4] = NULL THEN "NaN" ELSE stats[4][1]]

Bump(h, field, id) ==
  [h EXCEPT ![field] =
     IF id \in DOMAIN @ THEN [@ EXCEPT ![id] = @ + 1] ELSE @ @@ (id :> 1)]

\* --------------------------- calculate_trader_performance (migration)
\* Line 46 with the quotient taken as 1.
InversePrice_One(price) ==
  BigMul(BigMul(BigMul(BigMul(BigOf(1), Limb), Limb), Limb), Limb)

\* migration:46  1 / NULLIF(t.price, 0) as PostgreSQL's numeric division
\* gives it for a price in (0, 1]: rounded to 16 decimals, here in 10^-16.
InversePrice(price) ==
  BigRoundQuot(BigMul(BigMul(BigMul(BigMul(BigMul(BigOf(1), Limb), Limb),
                                    Limb), Limb), Limb), price)

\* 1 in 10^-16.
OneE16 == BigMul(BigMul(BigMul(BigMul(BigOf(1), Limb), Limb), Limb), Limb)

\* migration:38-55  the groups of trader_market_results of one trader: the
\* (market, outcome) pairs of the trader's trades on markets that are
\* resolved with a winning outcome.
MarketResults(tradesTbl, marketsTbl, address) ==
  { <<tradesTbl[id].market_id, tradesTbl[id].outcome>> :
      id \in { x \in DOMAIN tradesTbl :
                 /\ tradesTbl[x].trader_address = address
                 /\ tradesTbl[x].market_id \in DOMAIN marketsTbl
                 /\ marketsTbl[tradesTbl[x].market_id].resolved
                 /\ marketsTbl[tradesTbl[x].market_id].winning_outcome # "NULL" } }

RECURSIVE SumPL(_, _, _)
\* migration:44-50  SUM(CASE ...) over the trades ids, all on markets
\* resolved with a winner: <<the gains, the losses>> in 10^-18.
SumPL(tradesTbl, marketsTbl, ids) ==
  IF ids = {} THEN <<<<>>, <<>>>>
  ELSE LET id   == CHOOSE x \in ids : TRUE
           t    == tradesTbl[id]
           rest == SumPL(tradesTbl, marketsTbl, ids \ {id})
       IN  IF marketsTbl[t.market_id].winning_outcome = t.outcome
           THEN IF t.price = 0 THEN rest
                ELSE <<BigAdd(rest[1],
                              BigTimes(BigSub(InversePrice(t.price), OneE16),
                                       t.amount)),
                       rest[2]>>
           ELSE <<rest[1], BigAdd(rest[2], BigTimes(OneE16, t.amount))>>

\* migration:57-66  the row of trader_stats of one trader, before HAVING.
trader_stats(tradesTbl, marketsTbl, address) ==
  LET groups == MarketResults(tradesTbl, marketsTbl, address)
      ids    == { x \in DOMAIN tradesTbl :
                    /\ tradesTbl[x].trader_address = address
                    /\ <<tradesTbl[x].market_id, tradesTbl[x].outcome>> \in groups }
      pl     == SumPL(tradesTbl, marketsTbl, ids)
  IN  [resolved_markets |-> Cardinality({g[1] : g \in groups}),
       wins   |-> Cardinality({g \in groups :
                                 g[2] = marketsTbl[g[1]].winning_outcome}),
       losses |-> Cardinality({g \in groups :
                                 g[2] # marketsTbl[g[1]].winning_outcome}),
       total_pl |-> Signed(pl[1], pl[2])]

\* migration:20, 67-92  the rows calculate_trader_performance returns: the
\* traders with at least min_resolved_markets resolved markets.
calculate_trader_performance(min_resolved_markets) ==
  { address \in DOMAIN traders :
      trader_stats(trades, markets, address).resolved_markets
        >= min_resolved_markets }

\* migration:20  min_resolved_markets INTEGER DEFAULT 3.
DefaultMinResolvedMarkets == 3

\* server.js:399-428  the addresses GET /api/top-traders returns (its LIMIT
\* is over the number of traders here).
top_traders == { a \in DOMAIN traders : traders[a].total_bets > 5 }

\* fetch-trades:151-168  the addresses its top-traders endpoint returns.
edge_top_traders == { a \in DOMAIN traders : traders[a].total_bets >= 5 }

\* ---------------------------------------------------------------- Init
Init ==
  /\ markets = <<>>
  /\ trades = <<>>
  /\ traders = <<>>
  /\ trader_positions = <<>>
  /\ alerts = <<>>
  /\ pc = [w \in Workers |-> "idle"]
  /\ cur = [w \in Workers |-> NoTrade]
  /\ sel = [w \in Workers |-> <<>>]
  /\ epc = "idle"
  /\ ecur = NoTrade
  /\ deliveries = 0
  /\ failures = 0
  /\ spc = "idle"
  /\ todo = {}
  /\ syncs = 0
  /\ hist = [stat |-> <<>>, pos |-> <<>>]
  /\ statsJob = IdleJob
  /\ pmMarket = NoGammaMarket

\* ------------------------------------------------- settled ledgers
\* The tables are created IF NOT EXISTS (server.js:29-105): the program
\* starts on whatever rows the database holds.  The ledgers below hold
\* positions that are settled: status 'settled', resolved TRUE and a
\* profit_loss, shares * (1 - avg_price) on the winner and
\* -(shares * avg_price) on another outcome.
SettledPosition(t, profit_loss) ==
  [NewPosition(t) EXCEPT !.status = "settled", !.resolved = TRUE,
                         !.profit_loss = <<profit_loss>>]

\* The trades the settled ledgers hold.
SettledTrades ==
  [s1 |-> Trade("s1", "T1", "M1", "Yes", 500000, 4000, 1, 1250000),
   s2 |-> Trade("s2", "T1", "M1", "No", 300000, 6000, 1, 500000),
   s3 |-> Trade("s3", "T1", "M2", "No", 200000, 10000, 2, 200000),
   s4 |-> Trade("s4", "T2", "M2", "Yes", 100000, 5000, 2, 200000)]

\* A row of traders with the totals of its trades and the wins, losses and
\* profit_loss given.
SettledTrader(total_volume, total_bets, last_activity, old) ==
  [total_volume |-> total_volume, total_bets |-> total_bets,
   wins |-> old[1], losses |-> old[2], profit_loss |-> old[3],
   last_activity |-> last_activity]

\* M1 is resolved for Yes.  M2 is unresolved with its two positions open
\* (m2 = "NULL") or resolved for No with them settled (m2 = "No").  old is
\* what wins, losses and profit_loss of the traders hold.
SettledLedger(m2, old) ==
  LET st == SettledTrades
  IN  [markets |-> [M1 |-> [resolved |-> TRUE, winning_outcome |-> "Yes"],
                    M2 |-> [resolved |-> m2 # "NULL", winning_outcome |-> m2]],
       trades |-> [id \in DOMAIN st |-> TradeRow(st[id])],
       traders |-> [T1 |-> SettledTrader(1000000, 3, 2, old),
                    T2 |-> SettledTrader(100000, 1, 2, old)],
       trader_positions |->
         <<SettledPosition(st.s1, 750000),
           SettledPosition(st.s2, 0 - 300000),
           IF m2 = "NULL" THEN NewPosition(st.s3)
                          ELSE SettledPosition(st.s3, 0),
           IF m2 = "NULL" THEN NewPosition(st.s4)
                          ELSE SettledPosition(st.s4, 0 - 100000)>>]

SettledLedgers ==
  { SettledLedger(m2, old) :
      m2 \in {"NULL", "No"}, old \in {<<0, 0, 0>>, <<2, 1, 12345>>} }

SettledInit ==
  /\ \E l \in SettledLedgers :
       /\ markets = l.markets
       /\ trades = l.trades
       /\ traders = l.traders
       /\ trader_positions = l.trader_positions
  /\ alerts = <<>>
  /\ pc = [w \in Workers |-> "idle"]
  /\ cur = [w \in Workers |-> NoTrade]
  /\ sel = [w \in Workers |-> <<>>]
  /\ epc = "idle"
  /\ ecur = NoTrade
  /\ deliveries = 0
  /\ failures = 0
  /\ spc = "idle"
  /\ todo = {}
  /\ syncs = 0
  /\ hist = [stat |-> <<>>, pos |-> <<>>]
  /\ statsJob = IdleJob
  /\ pmMarket = NoGammaMarket

\* ------------------------------------------------------- server.js
\* storeMarket: INSERT INTO markets ... ON CONFLICT (id) DO UPDATE SET volume,
\* liquidity.  resolved takes its default FALSE and winning_outcome NULL on
\* insert; neither is touched on conflict.
storeMarket(m) ==
  /\ m \notin DOMAIN markets
  /\ markets' = markets @@ (m :> [resolved |-> FALSE, winning_outcome |-> "NULL"])
  /\ UNCHANGED <<statsJob, pmMarket,
                 trades, traders, trader_positions, alerts, pc, cur, sel,
                 epc, ecur, deliveries, failures, hist,
                 spc, todo, syncs>>

\* The markets upsert of the edge function that fetches the events: a new
\* row takes the defaults of resolved and winning_outcome; on conflict the
\* columns of the request are updated and those two are not among them.
fetchMarkets_upsert(m) ==
  /\ markets' = IF m \in DOMAIN markets THEN markets
                ELSE markets @@ (m :> [resolved |-> FALSE,
                                       winning_outcome |-> "NULL"])
  /\ UNCHANGED <<statsJob, pmMarket,
                 trades, traders, trader_positions, alerts, pc, cur, sel,
                 epc, ecur, deliveries, failures, hist,
                 spc, todo, syncs>>

\* storeTrade, first statement: INSERT INTO trades ... ON CONFLICT (tx_hash)
\* DO NOTHING.
storeTrade_insertTrade(w, t) ==
  /\ pc[w] = "idle"
  /\ deliveries < MaxDeliveries
  /\ t.market \in DOMAIN markets
  /\ trades' = IF t.id \in DOMAIN trades THEN trades
               ELSE trades @@ (t.id :> TradeRow(t))
  /\ pc' = [pc EXCEPT ![w] = "traders"]
  /\ cur' = [cur EXCEPT ![w] = t]
  /\ deliveries' = deliveries + 1
  /\ UNCHANGED <<statsJob, pmMarket,
                 markets, traders, trader_positions, alerts, sel, epc, ecur,
                 failures, hist,
                 spc, todo, syncs>>

\* storeTrade, first statement, for a market that is not in markets: the
\* foreign key trades.market_id rejects the row, the statement throws and the
\* catch of storeTrade ends the call.
storeTrade_unknownMarket(w, t) ==
  /\ pc[w] = "idle"
  /\ deliveries < MaxDeliveries
  /\ t.market \notin DOMAIN markets
  /\ deliveries' = deliveries + 1
  /\ UNCHANGED <<statsJob, pmMarket,
                 markets, trades, traders, trader_positions, alerts, pc, cur,
                 sel, epc, ecur, failures, hist,
                 spc, todo, syncs>>

\* storeTrade, second statement: the traders upsert.
storeTrade_updateTrader(w) ==
  /\ pc[w] = "traders"
  /\ traders' = UpsertTrader(traders, cur[w])
  /\ hist' = Bump(hist, "stat", cur[w].id)
  /\ pc' = [pc EXCEPT ![w] = "select"]
  /\ UNCHANGED <<statsJob, pmMarket,
                 markets, trades, trader_positions, alerts, cur, sel, epc,
                 ecur, deliveries, failures,
                 spc, todo, syncs>>

\* updateTraderPosition, first statement: SELECT the open position.  The code
\* uses result.rows[0]; the query has no ORDER BY, so any matching row may
\* come first.
updateTraderPosition_select(w) ==
  /\ pc[w] = "select"
  /\ LET rows == OpenPositions(trader_positions, cur[w])
     IN  IF rows = {} THEN sel' = [sel EXCEPT ![w] = <<>>]
         ELSE \E i \in rows :
                sel' = [sel EXCEPT ![w] =
                          <<[id |-> i, shares |-> trader_positions[i].shares,
                             avg_price |-> trader_positions[i].avg_price]>>]
  /\ pc' = [pc EXCEPT ![w] = "write"]
  /\ UNCHANGED <<statsJob, pmMarket,
                 markets, trades, traders, trader_positions, alerts, cur, epc,
                 ecur, deliveries, failures, hist,
                 spc, todo, syncs>>

\* updateTraderPosition, second statement: UPDATE the selected row by id, or
\* INSERT a new one, from the values read by the SELECT.
updateTraderPosition_write(w) ==
  /\ pc[w] = "write"
  /\ cur[w].price # 0
  /\ trader_positions' =
       IF sel[w] # <<>>
       THEN [trader_positions EXCEPT ![sel[w][1].id] =
               [@ EXCEPT !.shares = NewShares(sel[w][1], cur[w]),
                         !.avg_price = NewAvgPrice(sel[w][1], cur[w])]]
       ELSE Append(trader_positions, NewPosition(cur[w]))
  /\ hist' = Bump(hist, "pos", cur[w].id)
  /\ pc' = [pc EXCEPT ![w] = "alerts"]
  /\ sel' = [sel EXCEPT ![w] = <<>>]
  /\ UNCHANGED <<statsJob, pmMarket,
                 markets, trades, traders, alerts, cur, epc, ecur, deliveries,
                 failures,
                 spc, todo, syncs>>

\* updateTraderPosition for a price of 0: amount / price is Infinity, which
\* the DECIMAL(20,4) column refuses; the catch of updateTraderPosition logs
\* the error and storeTrade goes on.
updateTraderPosition_infinite(w) ==
  /\ pc[w] = "write"
  /\ cur[w].price = 0
  /\ cur[w].amount > 0
  /\ pc' = [pc EXCEPT ![w] = "alerts"]
  /\ sel' = [sel EXCEPT ![w] = <<>>]
  /\ UNCHANGED <<db, cur, epc, ecur, deliveries, failures, spc, todo, syncs,
                 hist, statsJob, pmMarket>>

\* checkForAlerts: one INSERT INTO alerts for an amount at or over a
\* threshold, nothing below; storeTrade returns.
checkForAlerts(w) ==
  /\ pc[w] = "alerts"
  /\ alerts' = IF AlertType(cur[w].amount) = "none" THEN alerts
               ELSE Append(alerts, AlertRow(AlertType(cur[w].amount), cur[w],
                                            cur[w].amount))
  /\ pc' = [pc EXCEPT ![w] = "idle"]
  /\ cur' = [cur EXCEPT ![w] = NoTrade]
  /\ UNCHANGED <<statsJob, pmMarket,
                 markets, trades, traders, trader_positions, sel, epc, ecur,
                 deliveries, failures, hist,
                 spc, todo, syncs>>

\* Lines 250-252 with the error thrown on to the loop, which ends.
storeTrade_rethrow(w) ==
  /\ pc[w] = "traders"
  /\ failures < MaxFailures
  /\ failures' = failures + 1
  /\ pc' = [pc EXCEPT ![w] = "aborted"]
  /\ cur' = [cur EXCEPT ![w] = NoTrade]
  /\ UNCHANGED <<db, sel, epc, ecur, deliveries, spc, todo, syncs, hist,
                 statsJob, pmMarket>>

\* A statement of storeTrade itself (the traders upsert) throws: the catch of
\* storeTrade logs it and the call ends, the position and the alert skipped.
storeTrade_catch(w) ==
  /\ pc[w] = "traders"
  /\ failures < MaxFailures
  /\ failures' = failures + 1
  /\ pc' = [pc EXCEPT ![w] = "idle"]
  /\ cur' = [cur EXCEPT ![w] = NoTrade]
  /\ UNCHANGED <<statsJob, pmMarket,
                 markets, trades, traders, trader_positions, alerts, sel, epc,
                 ecur, deliveries, hist,
                 spc, todo, syncs>>

\* A statement of updateTraderPosition throws: its own catch logs it, and
\* storeTrade goes on to checkForAlerts.
updateTraderPosition_catch(w) ==
  /\ pc[w] \in {"select", "write"}
  /\ failures < MaxFailures
  /\ failures' = failures + 1
  /\ pc' = [pc EXCEPT ![w] = "alerts"]
  /\ sel' = [sel EXCEPT ![w] = <<>>]
  /\ UNCHANGED <<statsJob, pmMarket,
                 markets, trades, traders, trader_positions, alerts, cur, epc,
                 ecur, deliveries, hist,
                 spc, todo, syncs>>

\* The INSERT of checkForAlerts throws: its catch logs it, storeTrade returns.
checkForAlerts_catch(w) ==
  /\ pc[w] = "alerts"
  /\ AlertType(cur[w].amount) # "none"
  /\ failures < MaxFailures
  /\ failures' = failures + 1
  /\ pc' = [pc EXCEPT ![w] = "idle"]
  /\ cur' = [cur EXCEPT ![w] = NoTrade]
  /\ UNCHANGED <<statsJob, pmMarket,
                 markets, trades, traders, trader_positions, alerts, sel, epc,
                 ecur, deliveries, hist,
                 spc, todo, syncs>>

\* The server process dies between two statements: every storeTrade in
\* flight is abandoned where it stands.
Crash ==
  /\ \E w \in Workers : pc[w] # "idle"
  /\ failures < MaxFailures
  /\ failures' = failures + 1
  /\ pc' = [w \in Workers |-> "idle"]
  /\ cur' = [w \in Workers |-> NoTrade]
  /\ sel' = [w \in Workers |-> <<>>]
  /\ UNCHANGED <<statsJob, pmMarket,
                 markets, trades, traders, trader_positions, alerts, epc, ecur,
                 deliveries, hist,
                 spc, todo, syncs>>

\* ------------------------------------------------- fetch-trades
\* Loop body, "Skip tiny trades": continue.
fetchTrades_skipTiny(t) ==
  /\ epc = "idle"
  /\ deliveries < MaxDeliveries
  /\ ~AtLeast(EdgeAmount(t), EdgeTinyTrade)
  /\ deliveries' = deliveries + 1
  /\ UNCHANGED <<statsJob, pmMarket,
                 markets, trades, traders, trader_positions, alerts, pc, cur,
                 sel, epc, ecur, failures, hist,
                 spc, todo, syncs>>

\* Loop body, first statement: the trades upsert on tx_hash, which overwrites
\* the row of a trade already stored.
fetchTrades_upsertTrade(t) ==
  /\ epc = "idle"
  /\ deliveries < MaxDeliveries
  /\ AtLeast(EdgeAmount(t), EdgeTinyTrade)
  /\ t.market \in DOMAIN markets
  /\ trades' = IF t.id \in DOMAIN trades
               THEN [trades EXCEPT ![t.id] = EdgeTradeRow(t)]
               ELSE trades @@ (t.id :> EdgeTradeRow(t))
  /\ epc' = "traders"
  /\ ecur' = t
  /\ deliveries' = deliveries + 1
  /\ UNCHANGED <<statsJob, pmMarket,
                 markets, traders, trader_positions, alerts, pc, cur, sel,
                 failures, hist,
                 spc, todo, syncs>>

\* Loop body, first statement, for a market that is not in markets: the
\* upsert returns tradeError and the rest of the body is skipped.
fetchTrades_tradeError(t) ==
  /\ epc = "idle"
  /\ deliveries < MaxDeliveries
  /\ AtLeast(EdgeAmount(t), EdgeTinyTrade)
  /\ t.market \notin DOMAIN markets
  /\ deliveries' = deliveries + 1
  /\ UNCHANGED <<statsJob, pmMarket,
                 markets, trades, traders, trader_positions, alerts, pc, cur,
                 sel, epc, ecur, failures, hist,
                 spc, todo, syncs>>

\* Loop body, second statement: the traders upsert; then the alert insert
\* is next if the amount reaches the whale threshold.
fetchTrades_upsertTrader ==
  /\ epc = "traders"
  /\ traders' = EdgeUpsertTrader(traders, ecur)
  /\ IF EdgeAlertType(EdgeAmount(ecur)) = "none"
     THEN epc' = "idle" /\ ecur' = NoTrade
     ELSE epc' = "alerts" /\ ecur' = ecur
  /\ UNCHANGED <<statsJob, pmMarket,
                 markets, trades, trader_positions, alerts, pc, cur, sel,
                 deliveries, failures, hist,
                 spc, todo, syncs>>

\* Loop body, third statement: the alerts insert.
fetchTrades_insertAlert ==
  /\ epc = "alerts"
  /\ alerts' = Append(alerts, AlertRow(EdgeAlertType(EdgeAmount(ecur)), ecur,
                                       StoredAmount(EdgeAmount(ecur))))
  /\ epc' = "idle"
  /\ ecur' = NoTrade
  /\ UNCHANGED <<statsJob, pmMarket,
                 markets, trades, traders, trader_positions, pc, cur, sel,
                 deliveries, failures, hist,
                 spc, todo, syncs>>

\* A statement of the loop body throws (the request fails): the catch logs
\* it and the loop goes on with the next trade.
fetchTrades_catch ==
  /\ epc # "idle"
  /\ failures < MaxFailures
  /\ failures' = failures + 1
  /\ epc' = "idle"
  /\ ecur' = NoTrade
  /\ UNCHANGED <<statsJob, pmMarket,
                 markets, trades, traders, trader_positions, alerts, pc, cur,
                 sel, deliveries, hist,
                 spc, todo, syncs>>

\* ---------------------------------------------- sync-resolutions
\* Step 1: the unresolved markets of the database.
syncResolutions_start ==
  /\ spc = "idle"
  /\ syncs < MaxSyncRuns
  /\ syncs' = syncs + 1
  /\ todo' = {m \in DOMAIN markets : ~markets[m].resolved}
  /\ spc' = "step2"
  /\ pmMarket' = NoGammaMarket
  /\ UNCHANGED <<statsJob,
                 markets, trades, traders, trader_positions, alerts, pc, cur,
                 sel, epc, ecur, deliveries, failures, hist>>

\* Step 2 without the test of pmMarket.closed.
syncResolutions_lookup_Unconditional(m, pm) ==
  /\ spc = "step2"
  /\ m \in todo
  /\ todo' = todo \ {m}
  /\ pmMarket' = pm
  /\ markets' = ResolveMarket(markets, m, pm)
  /\ UNCHANGED <<statsJob,
                 trades, traders, trader_positions, alerts, pc, cur, sel, epc,
                 ecur, deliveries, failures, spc, syncs, hist>>

\* Step 2, one market whose lookup answers with a record: if it is closed the
\* row is updated.
syncResolutions_lookup(m, pm) ==
  /\ spc = "step2"
  /\ m \in todo
  /\ todo' = todo \ {m}
  /\ pmMarket' = pm
  /\ markets' = IF pm.closed THEN ResolveMarket(markets, m, pm) ELSE markets
  /\ UNCHANGED <<statsJob,
                 trades, traders, trader_positions, alerts, pc, cur, sel, epc,
                 ecur, deliveries, failures, spc, syncs, hist>>

\* Step 2, one market whose lookup throws, is not ok or returns no record.
syncResolutions_lookupNothing(m) ==
  /\ spc = "step2"
  /\ m \in todo
  /\ todo' = todo \ {m}
  /\ pmMarket' = NoGammaMarket
  /\ UNCHANGED <<statsJob,
                 markets, trades, traders, trader_positions, alerts, pc, cur,
                 sel, epc, ecur, deliveries, failures, spc, syncs, hist>>

\* Step 3 begins: the recently closed events are fetched; ids are the
\* conditionIds of their markets.
syncResolutions_closedEvents(ids) ==
  /\ spc = "step2"
  /\ todo = {}
  /\ todo' = ids
  /\ spc' = "step3"
  /\ UNCHANGED <<statsJob, pmMarket,
                 markets, trades, traders, trader_positions, alerts, pc, cur,
                 sel, epc, ecur, deliveries, failures, syncs, hist>>

\* Step 3, one market of a closed event: skipped unless closed, else the row
\* with its conditionId is updated, resolved or not.
syncResolutions_closedMarket(m, pm) ==
  /\ spc = "step3"
  /\ m \in todo
  /\ todo' = todo \ {m}
  /\ pmMarket' = pm
  /\ markets' = IF pm.closed THEN ResolveMarket(markets, m, pm) ELSE markets
  /\ UNCHANGED <<statsJob,
                 trades, traders, trader_positions, alerts, pc, cur, sel, epc,
                 ecur, deliveries, failures, spc, syncs, hist>>

\* The function returns.
syncResolutions_return ==
  /\ spc = "step3"
  /\ todo = {}
  /\ spc' = "idle"
  /\ pmMarket' = NoGammaMarket
  /\ UNCHANGED <<statsJob,
                 markets, trades, traders, trader_positions, alerts, pc, cur,
                 sel, epc, ecur, deliveries, failures, todo, syncs, hist>>

\* ------------------------------------------- server.js trader stats
\* The cron job of every 10 minutes starts: SELECT DISTINCT address.
statsCron_start ==
  /\ statsJob.pc = "idle"
  /\ statsJob.runs < MaxStatsRuns
  /\ statsJob' = [statsJob EXCEPT !.pc = "loop", !.rows = DOMAIN traders,
                                  !.runs = @ + 1]
  /\ UNCHANGED <<db, pc, cur, sel, epc, ecur, deliveries, failures, spc, todo,
                 syncs, hist, pmMarket>>

\* calculateTraderStats(address), its SELECT; the rows come in no stated
\* order.  With no resolved position the function returns.
calculateTraderStats_select(address) ==
  /\ statsJob.pc = "loop"
  /\ address \in statsJob.rows
  /\ LET stats == PositionStats(trader_positions, address)
     IN  statsJob' = [statsJob EXCEPT
                        !.rows = @ \ {address},
                        !.address = IF stats[1] > 0 THEN address ELSE "none",
                        !.stats = IF stats[1] > 0 THEN stats ELSE <<>>,
                        !.pc = IF stats[1] > 0 THEN "update" ELSE "loop"]
  /\ UNCHANGED <<db, pc, cur, sel, epc, ecur, deliveries, failures, spc, todo,
                 syncs, hist, pmMarket>>

\* calculateTraderStats, its UPDATE traders ... WHERE address = $4.
calculateTraderStats_update ==
  /\ statsJob.pc = "update"
  /\ traders' = IF statsJob.address \in DOMAIN traders
                THEN [traders EXCEPT ![statsJob.address] =
                        TraderStatsRow(@, statsJob.stats)]
                ELSE traders
  /\ statsJob' = [statsJob EXCEPT !.pc = "loop", !.address = "none",
                                  !.stats = <<>>]
  /\ UNCHANGED <<markets, trades, trader_positions, alerts, pc, cur, sel, epc,
                 ecur, deliveries, failures, spc, todo, syncs, hist, pmMarket>>

\* The loop of the cron job is through.
statsCron_done ==
  /\ statsJob.pc = "loop"
  /\ statsJob.rows = {}
  /\ statsJob' = [statsJob EXCEPT !.pc = "idle"]
  /\ UNCHANGED <<db, pc, cur, sel, epc, ecur, deliveries, failures, spc, todo,
                 syncs, hist, pmMarket>>

\* server.js:540 and the schedule of sync-resolutions: the next period of the
\* periodic jobs begins.
cronTick ==
  /\ spc = "idle"
  /\ statsJob.pc = "idle"
  /\ syncs > 0 \/ statsJob.runs > 0
  /\ syncs' = 0
  /\ statsJob' = [statsJob EXCEPT !.runs = 0]
  /\ UNCHANGED <<db, pc, cur, sel, epc, ecur, deliveries, failures, spc, todo,
                 hist, pmMarket>>

Next ==
  \/ \E m \in MarketIds : storeMarket(m)
  \/ \E w \in Workers, t \in Feed : storeTrade_insertTrade(w, t)
  \/ \E w \in Workers, t \in Feed : storeTrade_unknownMarket(w, t)
  \/ \E w \in Workers : storeTrade_updateTrader(w)
  \/ \E w \in Workers : updateTraderPosition_select(w)
  \/ \E w \in Workers : updateTraderPosition_write(w)
  \/ \E w \in Workers : checkForAlerts(w)
  \/ \E w \in Workers : storeTrade_catch(w)
  \/ \E w \in Workers : updateTraderPosition_catch(w)
  \/ \E w \in Workers : checkForAlerts_catch(w)
  \/ Crash
  \/ \E t \in Feed : fetchTrades_skipTiny(t)
  \/ \E t \in Feed : fetchTrades_upsertTrade(t)
  \/ \E t \in Feed : fetchTrades_tradeError(t)
  \/ fetchTrades_upsertTrader
  \/ fetchTrades_insertAlert
  \/ fetchTrades_catch

Spec == Init /\ [][Next]_vars

\* Ingestion by one storeTrade at a time, no statement failing, each trade
\* delivered once.
SerialNext ==
  \/ \E m \in MarketIds : storeMarket(m)
  \/ \E t \in SerialFeed :
       t.id \notin DOMAIN trades /\ storeTrade_insertTrade("startup", t)
  \/ storeTrade_updateTrader("startup")
  \/ updateTraderPosition_select("startup")
  \/ updateTraderPosition_write("startup")
  \/ checkForAlerts("startup")

SerialSpec == Init /\ [][SerialNext]_vars

\* Ingestion by one storeTrade at a time with the resolution sync beside it.
ResolutionNext ==
  \/ \E m \in MarketIds : storeMarket(m)
  \/ \E t \in Feed : storeTrade_insertTrade("startup", t)
  \/ storeTrade_updateTrader("startup")
  \/ updateTraderPosition_select("startup")
  \/ updateTraderPosition_write("startup")
  \/ checkForAlerts("startup")
  \/ syncResolutions_start
  \/ \E m \in MarketIds, pm \in GammaMarkets : syncResolutions_lookup(m, pm)
  \/ \E m \in MarketIds : syncResolutions_lookupNothing(m)
  \/ \E ids \in SUBSET MarketIds : syncResolutions_closedEvents(ids)
  \/ \E m \in MarketIds, pm \in GammaMarkets : syncResolutions_closedMarket(m, pm)
  \/ syncResolutions_return

ResolutionSpec == Init /\ [][ResolutionNext]_vars

\* The resolution sync alone, on the markets the poll stored, answered with
\* any of the winner cases.
WinnerNext ==
  \/ \E m \in MarketIds : storeMarket(m)
  \/ \E m \in MarketIds : fetchMarkets_upsert(m)
  \/ syncResolutions_start
  \/ \E m \in MarketIds, pm \in WinnerCases : syncResolutions_lookup(m, pm)
  \/ \E m \in MarketIds : syncResolutions_lookupNothing(m)
  \/ \E ids \in SUBSET MarketIds : syncResolutions_closedEvents(ids)
  \/ \E m \in MarketIds, pm \in WinnerCases : syncResolutions_closedMarket(m, pm)
  \/ syncResolutions_return

WinnerSpec == Init /\ [][WinnerNext]_vars

\* Both ingestion paths, no statement failing, on amounts at the alert
\* thresholds.
ClassifyNext ==
  \/ \E m \in MarketIds : storeMarket(m)
  \/ \E t \in BoundaryFeed : storeTrade_insertTrade("startup", t)
  \/ storeTrade_updateTrader("startup")
  \/ updateTraderPosition_select("startup")
  \/ updateTraderPosition_write("startup")
  \/ checkForAlerts("startup")
  \/ \E t \in BoundaryFeed : fetchTrades_upsertTrade(t)
  \/ fetchTrades_upsertTrader
  \/ fetchTrades_insertAlert

ClassifySpec == Init /\ [][ClassifyNext]_vars
\* The trader-stats job and the resolution sync on a settled ledger.
StatsNext ==
  \/ statsCron_start
  \/ \E address \in TraderIds : calculateTraderStats_select(address)
  \/ calculateTraderStats_update
  \/ statsCron_done
  \/ syncResolutions_start
  \/ \E m \in MarketIds, pm \in GammaMarkets : syncResolutions_lookup(m, pm)
  \/ \E m \in MarketIds : syncResolutions_lookupNothing(m)
  \/ \E ids \in SUBSET MarketIds : syncResolutions_closedEvents(ids)
  \/ \E m \in MarketIds, pm \in GammaMarkets : syncResolutions_closedMarket(m, pm)
  \/ syncResolutions_return

StatsSpec == SettledInit /\ [][StatsNext]_vars

\* Ingestion by one storeTrade at a time on a settled ledger.
PostResolutionNext ==
  \/ \E t \in Feed : storeTrade_insertTrade("startup", t)
  \/ storeTrade_updateTrader("startup")
  \/ updateTraderPosition_select("startup")
  \/ updateTraderPosition_write("startup")
  \/ checkForAlerts("startup")

PostResolutionSpec == SettledInit /\ [][PostResolutionNext]_vars
\* The resolution sync and the trader-stats job, each of them run again in
\* every period.
ResolutionSync ==
  \/ syncResolutions_start
  \/ \E m \in MarketIds, pm \in GammaMarkets : syncResolutions_lookup(m, pm)
  \/ \E m \in MarketIds : syncResolutions_lookupNothing(m)
  \/ \E ids \in SUBSET MarketIds : syncResolutions_closedEvents(ids)
  \/ \E m \in MarketIds, pm \in GammaMarkets : syncResolutions_closedMarket(m, pm)
  \/ syncResolutions_return

TraderStatsJob ==
  \/ statsCron_start
  \/ \E address \in TraderIds : calculateTraderStats_select(address)
  \/ calculateTraderStats_update
  \/ statsCron_done

\* The periodic jobs, period after period, on a settled ledger.
PeriodicNext ==
  \/ ResolutionSync
  \/ TraderStatsJob
  \/ cronTick

\* A job that has begun goes on to its end, and the periods follow one
\* another.
PeriodicSpec ==
  /\ SettledInit /\ [][PeriodicNext]_vars
  /\ WF_vars(ResolutionSync)
  /\ WF_vars(TraderStatsJob)
  /\ WF_vars(cronTick)
\* Both ingestion paths, no statement failing, on records that validation
\* has to refuse.
ValidationNext ==
  \/ \E m \in MarketIds : storeMarket(m)
  \/ \E t \in ValidationFeed : storeTrade_insertTrade("startup", t)
  \/ storeTrade_updateTrader("startup")
  \/ updateTraderPosition_select("startup")
  \/ updateTraderPosition_write("startup")
  \/ updateTraderPosition_infinite("startup")
  \/ checkForAlerts("startup")
  \/ \E t \in ValidationFeed : fetchTrades_skipTiny(t)
  \/ \E t \in ValidationFeed : fetchTrades_upsertTrade(t)
  \/ fetchTrades_upsertTrader

ValidationSpec == Init /\ [][ValidationNext]_vars
\* A batch of two trades, one of them a whale's, and the answers of the
\* gamma API that carry their outcomes.
BatchFeed == { t \in Feed : t.id \in {"tx2", "tx4"} }
BatchGammaMarkets == { pm \in GammaMarkets : pm.outcomes # Absent \/ ~pm.closed }

\* Ingestion by one storeTrade at a time and the resolution sync, with
\* statements that fail.
BatchNext ==
  \/ \E m \in MarketIds : storeMarket(m)
  \/ \E t \in BatchFeed : storeTrade_insertTrade("startup", t)
  \/ \E t \in BatchFeed : storeTrade_unknownMarket("startup", t)
  \/ storeTrade_updateTrader("startup")
  \/ updateTraderPosition_select("startup")
  \/ updateTraderPosition_write("startup")
  \/ checkForAlerts("startup")
  \/ storeTrade_catch("startup")
  \/ updateTraderPosition_catch("startup")
  \/ checkForAlerts_catch("startup")
  \/ syncResolutions_start
  \/ \E m \in MarketIds, pm \in BatchGammaMarkets :
       syncResolutions_lookup(m, pm)
  \/ \E m \in MarketIds : syncResolutions_lookupNothing(m)
  \/ \E ids \in SUBSET MarketIds : syncResolutions_closedEvents(ids)
  \/ \E m \in MarketIds, pm \in BatchGammaMarkets :
       syncResolutions_closedMarket(m, pm)
  \/ syncResolutions_return

BatchSpec == Init /\ [][BatchNext]_vars

\* The gamma records of a market whose labels are not those of the trades
\* the feed carries, beside an open market and a Yes/No market won by No.
LabelCases ==
  { pm \in WinnerCases :
      \/ ~pm.closed /\ pm.outcomePrices = Absent
      \/ pm.outcomePrices = Json("array", <<0, 10000>>) /\ pm.outcomes # Garbage }

\* Ingestion by one storeTrade at a time with the resolution sync answered
\* from the label cases.
LabelNext ==
  \/ \E m \in MarketIds : storeMarket(m)
  \/ \E t \in BatchFeed : storeTrade_insertTrade("startup", t)
  \/ storeTrade_updateTrader("startup")
  \/ updateTraderPosition_select("startup")
  \/ updateTraderPosition_write("startup")
  \/ checkForAlerts("startup")
  \/ syncResolutions_start
  \/ \E m \in MarketIds, pm \in LabelCases : syncResolutions_lookup(m, pm)
  \/ \E m \in MarketIds : syncResolutions_lookupNothing(m)
  \/ \E ids \in SUBSET MarketIds : syncResolutions_closedEvents(ids)
  \/ \E m \in MarketIds, pm \in LabelCases : syncResolutions_closedMarket(m, pm)
  \/ syncResolutions_return

LabelSpec == Init /\ [][LabelNext]_vars

\* Two fills of one transaction: the feeds deliver them as two records under
\* one id, the transaction hash, with their own size and price.
RedeliveryFeed ==
  { Trade("tx1", "T1", "M1", "Yes", 500000, 4000, 2, 1250000),
    Trade("tx1", "T1", "M1", "Yes", 300000, 6000, 2, 500000) }

\* Both ingestion paths, no statement failing, on the two fills.
RedeliveryNext ==
  \/ \E m \in MarketIds : storeMarket(m)
  \/ \E t \in RedeliveryFeed : storeTrade_insertTrade("startup", t)
  \/ storeTrade_updateTrader("startup")
  \/ updateTraderPosition_select("startup")
  \/ updateTraderPosition_write("startup")
  \/ checkForAlerts("startup")
  \/ \E t \in RedeliveryFeed : fetchTrades_upsertTrade(t)
  \/ fetchTrades_upsertTrader

RedeliverySpec == Init /\ [][RedeliveryNext]_vars
\* ============================================================ properties
Ledger == <<trades, traders, trader_positions, alerts>>

\* No handler is between two statements.
Quiescent == (\A w \in Workers : pc[w] = "idle") /\ epc = "idle"

Count(h, id) == IF id \in DOMAIN h THEN h[id] ELSE 0

HasAlert(id) == \E i \in DOMAIN alerts : alerts[i].tx = id

\* Worker w performs the statement at label from, reaching label to.
Steps(w, from, to) == pc[w] = from /\ pc'[w] = to

\* C1. Idempotent ingestion: applying a trade whose id was applied before
\* leaves the ledger as it is.  Stated per effect: a traders upsert, a
\* position write or an alert insert for a trade id that already had that
\* effect changes nothing in trades, traders, trader_positions and alerts.
C1_IdempotentIngestion ==
  [][ /\ \A w \in Workers :
           /\ (Steps(w, "traders", "select") /\ cur[w].id \in DOMAIN hist.stat)
                => Ledger' = Ledger
           /\ (Steps(w, "write", "alerts") /\ hist' # hist
                 /\ cur[w].id \in DOMAIN hist.pos)
                => Ledger' = Ledger
           /\ (Steps(w, "alerts", "idle") /\ HasAlert(cur[w].id))
                => Ledger' = Ledger
      /\ (epc = "alerts" /\ epc' = "idle" /\ HasAlert(ecur.id))
           => Ledger' = Ledger
    ]_vars

\* C2. Alert dedup: at most one alert per trade id.
C2_OneAlertPerTrade ==
  \A i, j \in DOMAIN alerts : alerts[i].tx = alerts[j].tx => i = j

\* C3. Atomicity of one trade: once no storeTrade is in flight, every trade
\* has had its traders update (total_bets + 1) as often as its position
\* update.
C3_AllOrNothing ==
  Quiescent =>
    \A id \in DOMAIN hist.stat : Count(hist.stat, id) = Count(hist.pos, id)

\* The trade of the feeds with a given id.
FeedTrade(id) == CHOOSE t \in Feed \cup SerialFeed \cup BoundaryFeed : t.id = id

Key(t) == <<t.trader, t.market, t.outcome>>

\* The sequences that hold every id as often as the position writes of h.
Orders(h) ==
  LET n == LET RECURSIVE Sum(_)
               Sum(S) == IF S = {} THEN 0
                         ELSE LET x == CHOOSE y \in S : TRUE
                              IN  h[x] + Sum(S \ {x})
           IN  Sum(DOMAIN h)
  IN  { s \in [1..n -> DOMAIN h] :
          \A id \in DOMAIN h : Cardinality({i \in 1..n : s[i] = id}) = h[id] }

RECURSIVE SerialPosition(_, _)
\* The open position after the trades s[1..n] are applied one after the
\* other: <<shares, avg_price>>.
SerialPosition(s, n) ==
  IF n = 1 THEN <<TradeShares(FeedTrade(s[1])), FeedTrade(s[1]).price>>
  ELSE LET before == SerialPosition(s, n - 1)
           position == [shares |-> before[1], avg_price |-> before[2]]
       IN  <<NewShares(position, FeedTrade(s[n])),
             NewAvgPrice(position, FeedTrade(s[n]))>>

\* The position writes of h that are on key k.
OnKey(h, k) ==
  LET ids == {id \in DOMAIN h : Key(FeedTrade(id)) = k}
  IN  [id \in ids |-> h[id]]

Keys == {Key(t) : t \in Feed \cup SerialFeed \cup BoundaryFeed}

OpenRows(k) ==
  { i \in DOMAIN trader_positions :
      /\ trader_positions[i].trader_address = k[1]
      /\ trader_positions[i].market_id = k[2]
      /\ trader_positions[i].outcome = k[3]
      /\ trader_positions[i].status = "open" }

\* C4. Same-key serialization: with no statement failing and every trade
\* delivered once, once no storeTrade is in flight, the open position of
\* every key is the one some sequential order of the storeTrade calls on
\* that key produces.
C4_SameKeySerialization ==
  (Quiescent /\ failures = 0 /\ \A id \in DOMAIN hist.stat : hist.stat[id] = 1) =>
    \A k \in Keys :
      LET h == OnKey(hist.pos, k)
      IN  DOMAIN h # {} =>
            \E s \in Orders(h) :
              /\ Cardinality(OpenRows(k)) = 1
              /\ \A i \in OpenRows(k) :
                   <<trader_positions[i].shares, trader_positions[i].avg_price>>
                     = SerialPosition(s, Len(s))

RECURSIVE SumAmount(_)
SumAmount(ids) ==
  IF ids = {} THEN 0
  ELSE LET id == CHOOSE x \in ids : TRUE
       IN  trades[id].amount + SumAmount(ids \ {id})

TradesOf(trader) == {id \in DOMAIN trades : trades[id].trader_address = trader}

\* C7. TraderStat accumulation: with no statement failing, once no ingestion
\* is in flight, every trader's total_bets is the number of trade ids
\* ingested for the trader and total_volume the sum of their amounts.
C7_TraderStatAccumulation ==
  (Quiescent /\ failures = 0) =>
    \A a \in TraderIds :
      TradesOf(a) # {} =>
        /\ a \in DOMAIN traders
        /\ traders[a].total_bets = Cardinality(TradesOf(a))
        /\ traders[a].total_volume = SumAmount(TradesOf(a))

\* C8. lastActivityAt is the maximum event time: with no statement failing,
\* once no ingestion is in flight, last_activity is the greatest timestamp
\* of the trader's ingested trades.
C8_LastActivityIsMax ==
  (Quiescent /\ failures = 0) =>
    \A a \in DOMAIN traders :
      \A id \in TradesOf(a) : traders[a].last_activity >= trades[id].timestamp
\* ------------------------------------------------ weighted average cost
\* The position write of updateTraderPosition takes effect.
WriteStep(w) == Steps(w, "write", "alerts") /\ hist' # hist

\* shares0 * avgPrice0 + notional, in 10^-8 currency units.
WacCost(shares0, avgPrice0, t) ==
  BigAdd(BigMul(BigOf(shares0), avgPrice0), AmountE8(t.amount))

\* (shares0 + notional / price) * price, in 10^-8 currency units.
WacQuantity(shares0, t) ==
  BigAdd(BigMul(BigOf(shares0), t.price), AmountE8(t.amount))

\* q = n / d exactly, and q is a multiple of 1/10000 nearest to n / d, for a
\* small divisor d.
ExactQuotient(q, n, d) == BigMul(BigOf(q), d) = n
NearestQuotient(q, n, d) ==
  /\ BigLeq(BigMul(BigOf(q), 2 * d), BigAdd(BigMul(n, 2), BigOf(d)))
  /\ BigLeq(BigMul(n, 2), BigAdd(BigMul(BigOf(q), 2 * d), BigOf(d)))

\* The same for a small quotient q and a Big divisor d.
ExactRatio(q, n, d) == BigMul(d, q) = n
NearestRatio(q, n, d) ==
  /\ BigLeq(BigMul(d, 2 * q), BigAdd(BigMul(n, 2), d))
  /\ BigLeq(BigMul(n, 2), BigAdd(BigMul(d, 2 * q), d))

\* The rows of before are in after as they were, but for row i.
SameBut(before, after, i) ==
  \A j \in DOMAIN before : j # i => after[j] = before[j]

\* The step of C5 with the quotients exact (Exact = TRUE) or rounded to the
\* nearest 1/10000 (Exact = FALSE).
WacStep(w, Exact) ==
  LET t    == cur[w]
      rows == OpenRows(Key(t))
  IN  IF rows = {}
      THEN /\ Len(trader_positions') = Len(trader_positions) + 1
           /\ SameBut(trader_positions, trader_positions', 0)
           /\ LET r == trader_positions'[Len(trader_positions')]
              IN  /\ <<r.trader_address, r.market_id, r.outcome>> = Key(t)
                  /\ r.status = "open"
                  /\ r.avg_price = t.price
                  /\ IF Exact
                     THEN ExactQuotient(r.shares, AmountE8(t.amount), t.price)
                     ELSE NearestQuotient(r.shares, AmountE8(t.amount), t.price)
      ELSE /\ Len(trader_positions') = Len(trader_positions)
           /\ \A i \in rows :
                LET r0 == trader_positions[i]
                    r  == trader_positions'[i]
                    n  == BigMul(WacCost(r0.shares, r0.avg_price, t), t.price)
                    d  == WacQuantity(r0.shares, t)
                IN  /\ SameBut(trader_positions, trader_positions', i)
                    /\ r.status = "open"
                    /\ r.shares >= r0.shares
                    /\ IF Exact
                       THEN /\ ExactQuotient(r.shares - r0.shares,
                                             AmountE8(t.amount), t.price)
                            /\ ExactRatio(r.avg_price, n, d)
                       ELSE /\ NearestQuotient(r.shares - r0.shares,
                                               AmountE8(t.amount), t.price)
                            /\ NearestRatio(r.avg_price, n, d)

\* C5 as claimed. Weighted-average-cost step: a trade (notional n, price p)
\* on a key with no open position creates one with shares = n/p and
\* avgPrice = p; on a key with an open position (shares0, avgPrice0) it
\* yields shares0 + n/p and (shares0*avgPrice0 + n)/(shares0 + n/p).
C5_WacStepExact ==
  [][\A w \in Workers : WriteStep(w) => WacStep(w, TRUE)]_vars

\* C5 as amended. The same step with shares and avgPrice rounded to the
\* nearest 1/10000 as the DECIMAL(20,4) and DECIMAL(10,4) columns store them.
C5_WacStepRounded ==
  [][\A w \in Workers : WriteStep(w) => WacStep(w, FALSE)]_vars

\* C5: a trade whose quotient n/p does not end within 4 decimals (50 / 0.3)
\* has been applied to the open position that 5000 at 0.40 created.
C5_Witness ==
  /\ pc["startup"] = "alerts"
  /\ cur["startup"].id = "tx3"
  /\ DOMAIN hist.pos = {"tx1", "tx3"}
  /\ \E i \in DOMAIN trader_positions :
       trader_positions[i].shares = 126666667

RECURSIVE TimesPrices(_, _)
\* a times the price of every trade of ids.
TimesPrices(a, ids) ==
  IF ids = {} THEN a
  ELSE LET id == CHOOSE x \in ids : TRUE
       IN  TimesPrices(BigMul(a, FeedTrade(id).price), ids \ {id})

RECURSIVE SumShares(_, _)
\* The sum over some of the trades of ids of notional / price, times the
\* prices of all the trades of ids, in 10^-8 currency units.
SumShares(some, ids) ==
  IF some = {} THEN <<>>
  ELSE LET id == CHOOSE x \in some : TRUE
       IN  BigAdd(TimesPrices(AmountE8(FeedTrade(id).amount), ids \ {id}),
                  SumShares(some \ {id}, ids))

RECURSIVE SumNotional(_)
\* The sum of the notionals of the trades of ids, in 10^-8 currency units.
SumNotional(ids) ==
  IF ids = {} THEN <<>>
  ELSE LET id == CHOOSE x \in ids : TRUE
       IN  BigAdd(AmountE8(FeedTrade(id).amount), SumNotional(ids \ {id}))

\* |a - b| <= tol.
Within(a, b, tol) == BigLeq(a, BigAdd(b, tol)) /\ BigLeq(b, BigAdd(a, tol))

\* The weighted-average invariant of key k with at most slack/10000 of
\* rounding per applied trade (slack 0: exactly).
WeightedAverage(k, slack) ==
  LET ids == DOMAIN OnKey(hist.pos, k)
      n   == Cardinality(ids) * slack
  IN  ids # {} =>
        /\ Cardinality(OpenRows(k)) = 1
        /\ \A i \in OpenRows(k) :
             LET r == trader_positions[i]
             IN  /\ Within(TimesPrices(BigOf(r.shares), ids),
                           SumShares(ids, ids),
                           TimesPrices(BigOf(n), ids))
                 /\ Within(BigMul(BigOf(r.shares), r.avg_price),
                           SumNotional(ids),
                           BigMul(BigOf(ShareScale + r.shares), n))

\* C6 as claimed. Weighted-average invariant: after distinct trades
\* (n1,p1),(n2,p2),... on one key, in any order, shares = sum(ni/pi) and
\* shares * avgPrice = sum(ni).
C6_WeightedAverageExact == \A k \in Keys : WeightedAverage(k, 0)

\* C6 as amended. After k distinct trades on one key, in any order, shares
\* is within k * 0.0001 of sum(ni/pi) and shares * avgPrice within
\* k * 0.0001 * (1 + shares) of sum(ni).
C6_WeightedAverageRounded == \A k \in Keys : WeightedAverage(k, 1)

\* C6: three distinct trades are on one key, one of them with a quotient
\* that does not end within 4 decimals.
C6_Witness ==
  /\ {"tx2", "tx3", "tx5"} = DOMAIN OnKey(hist.pos, <<"T1", "M1", "Yes">>)
  /\ Cardinality(OpenRows(<<"T1", "M1", "Yes">>)) = 1

\* ------------------------------------------------------ classification
\* The claimed classification of an amount in cents.
Classify(amount) ==
  IF amount >= 5000000 THEN "mega_whale"
  ELSE IF amount >= 1000000 THEN "whale"
  ELSE "none"

\* C9. Alert classification: every alert has the type its amount's tier
\* gives (>= 50000 mega_whale, >= 10000 whale), and once no ingestion is in
\* flight a stored trade has an alert exactly if its amount is 10000 or
\* more, whichever of the two ingestion paths handled it.
C9_AlertClassification ==
  /\ \A i \in DOMAIN alerts :
       alerts[i].type = Classify(alerts[i].amount)
  /\ Quiescent =>
       \A id \in DOMAIN trades :
         HasAlert(id) <=> Classify(trades[id].amount) # "none"

\* C9: the boundary amounts 9999.99, 10000 and 50000 have been ingested: no
\* alert, a whale and a mega_whale.
C9_Witness ==
  /\ Quiescent
  /\ {"b1", "b2", "b4"} \subseteq DOMAIN trades
  /\ ~HasAlert("b1")
  /\ \E i \in DOMAIN alerts : alerts[i].tx = "b2" /\ alerts[i].type = "whale"
  /\ \E i \in DOMAIN alerts : alerts[i].tx = "b4" /\ alerts[i].type = "mega_whale"
\* ----------------------------------------------------------- settlement
\* Market m gets its winning outcome in this step.
Settles(m) ==
  /\ m \in DOMAIN markets
  /\ ~(markets[m].resolved /\ markets[m].winning_outcome # "NULL")
  /\ markets'[m].resolved
  /\ markets'[m].winning_outcome # "NULL"

\* profit_loss, a signed amount in cents, is shares * (1 - avg_price) for a
\* position on the winner w and -(shares * avg_price) for any other, to the
\* nearest cent.
RealizedPL(profit_loss, position, w) ==
  LET gain  == BigMul(BigOf(position.shares), PriceScale - position.avg_price)
      stake == BigMul(BigOf(position.shares), position.avg_price)
      cent  == BigMul(BigOf(ShareScale), PriceScale \div CentScale)
      NearestCents(c, n) ==
        Within(BigMul(BigMul(BigOf(c), ShareScale), 2 * (PriceScale \div CentScale)),
               BigMul(n, 2), cent)
  IN  /\ profit_loss # NULL
      /\ IF position.outcome = w
         THEN profit_loss[1] >= 0 /\ NearestCents(profit_loss[1], gain)
         ELSE profit_loss[1] <= 0 /\ NearestCents(0 - profit_loss[1], stake)

\* C10. Settlement result: in the step that gives a market its winning
\* outcome w, every open position of that market becomes settled with
\* realizedPL = shares * (1 - avgPrice) if it is on w and
\* -(shares * avgPrice) otherwise, and the positions of other markets stay
\* as they are.
C10_SettlementResult ==
  [][\A m \in DOMAIN markets :
       Settles(m) =>
         /\ Len(trader_positions') = Len(trader_positions)
         /\ \A i \in DOMAIN trader_positions :
              LET r0 == trader_positions[i]
                  r  == trader_positions'[i]
              IN  IF r0.market_id = m /\ r0.status = "open"
                  THEN /\ r.status = "settled"
                       /\ r.shares = r0.shares
                       /\ r.avg_price = r0.avg_price
                       /\ RealizedPL(r.profit_loss, r0,
                                     markets'[m].winning_outcome)
                  ELSE r = r0]_vars
\* ------------------------------------------------ resolution frame
\* sync-resolutions records what it found of the closed market m.
Marks(m) ==
  /\ spc \in {"step2", "step3"}
  /\ m \in todo /\ m \notin todo'
  /\ m \in DOMAIN markets
  /\ pmMarket'.closed

\* wins, losses and profit_loss of every trader, as the traders table holds
\* them and as calculate_trader_performance derives them, stay as they are.
SameTraderResults ==
  /\ DOMAIN traders' = DOMAIN traders
  /\ \A a \in DOMAIN traders :
       /\ traders'[a].wins = traders[a].wins
       /\ traders'[a].losses = traders[a].losses
       /\ traders'[a].profit_loss = traders[a].profit_loss
  /\ \A a \in TraderIds :
       trader_stats(trades', markets', a) = trader_stats(trades, markets, a)

\* C11. Settlement without a winner touches nothing: in a step that marks a
\* market resolved with no winning outcome, no position changes and no
\* trader's wins, losses or profitLoss change.
C11_NoWinnerTouchesNothing ==
  [][\A m \in MarketIds :
       (Marks(m) /\ markets'[m].resolved
                 /\ markets'[m].winning_outcome = "NULL") =>
         /\ trader_positions' = trader_positions
         /\ SameTraderResults]_vars
\* --------------------------------------------------- recomputation
\* wins, losses and profit_loss of every row of traders stay as they are.
SameTraderColumns ==
  /\ DOMAIN traders' = DOMAIN traders
  /\ \A a \in DOMAIN traders :
       /\ traders'[a].wins = traders[a].wins
       /\ traders'[a].losses = traders[a].losses
       /\ traders'[a].profit_loss = traders[a].profit_loss

OpenOnResolved(i) ==
  /\ i \in DOMAIN trader_positions
  /\ trader_positions[i].status = "open"
  /\ trader_positions[i].market_id \in DOMAIN markets
  /\ markets[trader_positions[i].market_id].resolved
  /\ markets[trader_positions[i].market_id].winning_outcome # "NULL"

\* The rows trader_positions can come to hold.
MaxPositions ==
  Len(SettledLedger("NULL", <<0, 0, 0>>).trader_positions) + MaxDeliveries

IsSettled(i) ==
  i \in DOMAIN trader_positions /\ trader_positions[i].status = "settled"

\* C13. Settlement happens, and exactly once: with the periodic jobs run
\* again and again, a position that is open on a market resolved with a
\* winner is settled at some later time, and a settled position stays
\* settled.
C13_SettledExactlyOnce ==
  /\ \A i \in 1..MaxPositions : OpenOnResolved(i) ~> IsSettled(i)
  /\ [][\A i \in DOMAIN trader_positions :
          trader_positions[i].status = "settled" =>
            trader_positions'[i].status = "settled"]_vars
\* The settled positions of a trader.
SettledOf(address) ==
  { i \in DOMAIN trader_positions :
      /\ trader_positions[i].trader_address = address
      /\ trader_positions[i].status = "settled" }

RECURSIVE SumRealizedPL(_)
\* The sum of realizedPL over the rows ids, in cents.
SumRealizedPL(ids) ==
  IF ids = {} THEN 0
  ELSE LET i == CHOOSE x \in ids : TRUE
       IN  trader_positions[i].profit_loss[1] + SumRealizedPL(ids \ {i})

OnlySettled(k) ==
  LET rows == { i \in DOMAIN trader_positions :
                  /\ trader_positions[i].trader_address = k[1]
                  /\ trader_positions[i].market_id = k[2]
                  /\ trader_positions[i].outcome = k[3] }
  IN  rows # {} /\ \A i \in rows : trader_positions[i].status = "settled"

\* The position write of worker w adds one open row for its trade, with
\* avg_price the trade's price and shares notional / price, exactly
\* (Exact = TRUE) or to the nearest 1/10000, and leaves every row there is
\* as it was.
OpensNewPosition(w, Exact) ==
  LET t == cur[w]
      r == trader_positions'[Len(trader_positions')]
  IN  /\ Len(trader_positions') = Len(trader_positions) + 1
      /\ \A i \in DOMAIN trader_positions :
           trader_positions'[i] = trader_positions[i]
      /\ <<r.trader_address, r.market_id, r.outcome>> = Key(t)
      /\ r.status = "open"
      /\ r.profit_loss = NULL
      /\ r.avg_price = t.price
      /\ IF Exact THEN ExactQuotient(r.shares, AmountE8(t.amount), t.price)
                  ELSE NearestQuotient(r.shares, AmountE8(t.amount), t.price)

ValidRecord(price, amount) == price > 0 /\ price <= PriceScale /\ amount > 0

\* C16. Validation: a record whose price is not in (0, 1] or whose notional
\* is not over 0 leaves nothing in the ledger: no trade fact, no TraderStat
\* update, no position and no alert come from it.
C16_InvalidRejected ==
  /\ \A id \in DOMAIN trades :
       ValidRecord(trades[id].price, trades[id].amount)
  /\ \A id \in DOMAIN hist.stat \cup DOMAIN hist.pos :
       \A t \in ValidationFeed :
         t.id = id => ValidRecord(t.price, t.amount)
  /\ \A i \in DOMAIN alerts :
       \A t \in ValidationFeed :
         t.id = alerts[i].tx => ValidRecord(t.price, t.amount)
\* ------------------------------------------------------ batch isolation
\* C17. Batch isolation: a statement of storeTrade that fails changes no
\* table and leaves the caller's loop going: storeTrade returns to it or goes
\* on with its next statement.  A trade for an unknown market only takes its
\* turn.  A market whose lookup fails in sync-resolutions leaves the loop
\* with the other markets still to be looked up, and the function goes on to
\* step 3 and returns only when none is left.
C17_BatchIsolation ==
  [][/\ \A w \in Workers :
          (pc[w] # "idle" /\ failures' > failures) =>
            /\ pc'[w] \in {"idle", "alerts"}
            /\ db' = db
            /\ deliveries' = deliveries
     /\ (deliveries' > deliveries /\ pc' = pc /\ epc' = epc) => db' = db
     /\ (spc = "step2" /\ todo' # todo /\ markets' = markets) =>
          \/ spc' = "step2" /\ \E m \in todo : todo' = todo \ {m}
          \/ spc' = "step3" /\ todo = {}
     /\ (spc # "idle" /\ spc' = "idle") => todo = {}]_vars

\* C17: the traders upsert of tx4 has failed and the next trade of the batch,
\* tx2, has been through all of storeTrade; a resolution sync has left M1
\* unresolved and resolved M2 after it.
C17_Witness ==
  /\ failures = 1
  /\ "tx4" \in DOMAIN trades /\ "tx4" \notin DOMAIN hist.stat
  /\ "tx2" \in DOMAIN hist.pos
  /\ pc["startup"] = "idle"
  /\ spc = "idle" /\ syncs = 1
  /\ {"M1", "M2"} \subseteq DOMAIN markets
  /\ ~markets["M1"].resolved /\ markets["M2"].resolved
\* ----------------------------------------------------------- dust trades
\* C18. Dust trades are accepted: every trade the fetch-trades loop takes up,
\* for a market that is stored, has its trade fact stored and goes on to the
\* TraderStat update, whatever its notional.
C18_DustAccepted ==
  [][(/\ epc = "idle"
      /\ deliveries' = deliveries + 1
      /\ pc' = pc
      /\ MarketIds \subseteq DOMAIN markets) =>
       (epc' = "traders" /\ ecur'.id \in DOMAIN trades')]_vars

\* ------------------------------------------------ C19
\* The indexes of the prices over the 0.9 bar.
HighPriced(pm) == {i \in DOMAIN pm.outcomePrices.v : pm.outcomePrices.v[i] > 9000}

\* C19 as stated: whenever the sync records a closed market, the winner it
\* records is the label, in the label vector O the record carries, of a
\* price over 0.9, and is null when prices are missing, do not parse or none
\* is over 0.9.
C19_WinnerFromLabels ==
  [][\A m \in MarketIds :
       Marks(m) =>
         LET pm == pmMarket'
             w  == markets'[m].winning_outcome
         IN  IF pm.outcomePrices.kind # "array" \/ HighPriced(pm) = {}
             THEN w = "NULL"
             ELSE /\ pm.outcomes.kind = "array"
                  /\ \E i \in HighPriced(pm) :
                       i \in DOMAIN pm.outcomes.v /\ w = pm.outcomes.v[i]]_vars

\* C19 amended: the labels are Yes, No when the record carries none; the
\* winner is null also when the labels do not parse; the record has as many
\* labels as prices.
C19_WinnerFromLabelsOrDefault ==
  [][\A m \in MarketIds :
       Marks(m) =>
         LET pm == pmMarket'
             w  == markets'[m].winning_outcome
             O  == IF pm.outcomes.kind = "array" THEN pm.outcomes.v
                   ELSE <<"Yes", "No">>
         IN  IF \/ pm.outcomePrices.kind # "array"
                \/ pm.outcomes.kind = "garbage"
                \/ HighPriced(pm) = {}
             THEN w = "NULL"
             ELSE Len(pm.outcomePrices.v) = Len(O) =>
                    \E i \in HighPriced(pm) : w = O[i]]_vars

\* A market recorded with the default label Yes from a record without labels.
C19_Witness ==
  /\ spc \in {"step2", "step3"}
  /\ pmMarket = GammaMarket(TRUE, Json("array", <<10000, 0>>), Absent)
  /\ \E m \in DOMAIN markets :
       markets[m].resolved /\ markets[m].winning_outcome = "Yes"

\* ------------------------------------------------ C20
\* The outcome labels known of market m: Yes and No, which every market has
\* unless told otherwise, and the outcomes its stored trades were made on.
KnownLabels(m) ==
  {"Yes", "No"} \cup
  { trades[id].outcome : id \in {x \in DOMAIN trades : trades[x].market_id = m} }

\* C20. ResolutionInconsistent: whenever the sync records for a market a
\* winner that is not among the market's known labels, the positions stay as
\* they are, open and without profit_loss, and no trader's wins, losses or
\* profit and loss change, stored or derived.
C20_UnknownWinnerRefused ==
  [][\A m \in MarketIds :
       (/\ Marks(m)
        /\ markets'[m].winning_outcome \notin KnownLabels(m) \cup {"NULL"}) =>
         /\ trader_positions' = trader_positions
         /\ SameTraderResults]_vars

\* ------------------------------------------------ C21
\* C21. A resolution is applied once: a market stored as resolved with a
\* winner keeps its resolved flag and its winner through every step of the
\* resolution sync and every markets upsert.
C21_ResolutionAppliedOnce ==
  [][\A m \in DOMAIN markets :
       (markets[m].resolved /\ markets[m].winning_outcome # "NULL") =>
         /\ m \in DOMAIN markets'
         /\ markets'[m] = markets[m]]_vars

\* ------------------------------------------------ C22
\* C22. Trade facts are immutable: a stored trade stays stored and its
\* market, trader, outcome, amount, price and timestamp stay as they were
\* stored, whatever is delivered later by either ingestion path.  (One row
\* per id is what the table being keyed by tx_hash gives.)
C22_TradeFactsImmutable ==
  [][\A id \in DOMAIN trades :
       id \in DOMAIN trades' /\ trades'[id] = trades[id]]_vars

\* ------------------------------------------------ C23
\* C23. Open-position invariant: in every reachable state every position
\* with status open has no profit_loss and has shares > 0.
C23_OpenPositionInvariant ==
  \A i \in DOMAIN trader_positions :
    trader_positions[i].status = "open" =>
      /\ trader_positions[i].profit_loss = NULL
      /\ trader_positions[i].shares > 0

\* ------------------------------------------------ C24
\* The key of a row of trader_positions.
RowKey(r) == <<r.trader_address, r.market_id, r.outcome>>

\* C24. Key independence: a step of storeTrade for a trade of key k leaves
\* every position of another key as it is and creates none, and leaves the
\* traders row of every other trader as it is and creates none, whatever the
\* other storeTrade call is doing.
C24_KeyIndependence ==
  [][\A w \in Workers :
       pc'[w] # pc[w] =>
         LET t == cur'[w]
         IN  /\ \A i \in DOMAIN trader_positions :
                  RowKey(trader_positions[i]) # Key(t) =>
                    /\ i \in DOMAIN trader_positions'
                    /\ trader_positions'[i] = trader_positions[i]
             /\ \A i \in DOMAIN trader_positions' \ DOMAIN trader_positions :
                  RowKey(trader_positions'[i]) = Key(t)
             /\ \A a \in DOMAIN traders :
                  a # t.trader =>
                    a \in DOMAIN traders' /\ traders'[a] = traders[a]
             /\ DOMAIN traders' \ DOMAIN traders \subseteq {t.trader}]_vars

\* Both storeTrade calls have written the position of their trade, on
\* different keys, and neither has returned.
C24_Witness ==
  /\ pc["startup"] = "alerts" /\ pc["cron"] = "alerts"
  /\ Key(cur["startup"]) # Key(cur["cron"])
  /\ \E i, j \in DOMAIN trader_positions :
       /\ RowKey(trader_positions[i]) = Key(cur["startup"])
       /\ RowKey(trader_positions[j]) = Key(cur["cron"])

\* ------------------------------------------------ C25
\* C25. Leaderboard exclusion: in every reachable state a trader with fewer
\* settled markets than the default minimum is in none of the leaderboard
\* results, and a trader with at least that many is in each of them.
C25_LeaderboardExclusion ==
  \A a \in DOMAIN traders :
    IF trader_stats(trades, markets, a).resolved_markets
         < DefaultMinResolvedMarkets
    THEN /\ a \notin calculate_trader_performance(DefaultMinResolvedMarkets)
         /\ a \notin top_traders
         /\ a \notin edge_top_traders
    ELSE /\ a \in calculate_trader_performance(DefaultMinResolvedMarkets)
         /\ a \in top_traders
         /\ a \in edge_top_traders

\* ------------------------------------------------ C26
\* The two trades of the scenario have been applied to the position, 5000 at
\* 0.40 first and 3000 at 0.60 last, and nothing else has.
TwoTradesApplied ==
  /\ DOMAIN hist.pos = {"tx1", "tx2"}
  /\ hist.pos["tx1"] = 1 /\ hist.pos["tx2"] = 1
  /\ pc["startup"] = "alerts" /\ cur["startup"].id = "tx2"

\* The scenario ends with one open position on the key, of 17500 shares at
\* the average price given, in 1/10000.
ScenarioPosition(avgPrice) ==
  TwoTradesApplied =>
    /\ Cardinality(OpenRows(<<"T1", "M1", "Yes">>)) = 1
    /\ \A i \in OpenRows(<<"T1", "M1", "Yes">>) :
         /\ trader_positions[i].shares = 17500 * ShareScale
         /\ trader_positions[i].avg_price = avgPrice

\* C26 as stated: the two-trade scenario ends with 17500 shares at an
\* average price of 0.4857.
C26_TwoTradeScenario == ScenarioPosition(4857)

\* C26 amended: the two-trade scenario ends with 17500 shares at an average
\* price of 0.4571, which is 8000 / 17500 to four decimals.
C26_TwoTradeScenarioRecomputed == ScenarioPosition(4571)

\* The second trade of the scenario has just been written.
C26_Witness ==
  /\ TwoTradesApplied
  /\ \E i \in OpenRows(<<"T1", "M1", "Yes">>) :
       trader_positions[i].shares = 17500 * ShareScale

\* ------------------------------------------------ C27
\* The position of the scenario has been built: 5000 at 0.40 and 3000 at
\* 0.60 are the trades written to it.
ScenarioPositionBuilt ==
  /\ DOMAIN hist.pos = {"tx1", "tx2"}
  /\ hist.pos["tx1"] = 1 /\ hist.pos["tx2"] = 1

\* C27. Settlement scenario: in the step that gives the market of the
\* scenario's position its winner, the position gets a realizedPL of 9000
\* if the winner is its outcome and of -8500 otherwise.
C27_SettlementScenario ==
  [][(Settles("M1") /\ ScenarioPositionBuilt) =>
       \A i \in OpenRows(<<"T1", "M1", "Yes">>) :
         trader_positions'[i].profit_loss =
           IF markets'["M1"].winning_outcome = "Yes"
           THEN <<9000 * CentScale>> ELSE <<0 - 8500 * CentScale>>]_vars

\* ------------------------------------------------ C28
\* C28. At most one open position per key: in every reachable state no
\* (trader, market, outcome) has two positions with status open.
C28_OneOpenPositionPerKey ==
  \A k \in Keys : Cardinality(OpenRows(k)) <= 1

\* ------------------------------------------------ C29
\* An amount in 10^-8 currency units, in 10^-18.
ScaleE10(x) == BigMul(BigMul(BigMul(x, Limb), Limb), 100)

\* The trades stored for key k.
TradesOnKey(k) ==
  { id \in DOMAIN trades :
      <<trades[id].trader_address, trades[id].market_id, trades[id].outcome>> = k }

\* The market of key k is resolved with a winner and the one open position
\* of k is built from the trades stored for k, each written to it once.
BuiltFromItsTrades(k) ==
  /\ k[2] \in DOMAIN markets
  /\ markets[k[2]].resolved
  /\ markets[k[2]].winning_outcome # "NULL"
  /\ TradesOnKey(k) # {}
  /\ DOMAIN OnKey(hist.pos, k) = TradesOnKey(k)
  /\ \A id \in TradesOnKey(k) : hist.pos[id] = 1
  /\ Cardinality(OpenRows(k)) = 1

\* market_pl of the trades of key k agrees with the realizedPL the
\* position of k would have, shares * (1 - avg_price) on a win and
\* -(shares * avg_price) on a loss, to within slack/10000 of a currency unit
\* per share and per trade applied (slack 0: exactly).
PlAgrees(k, slack) ==
  BuiltFromItsTrades(k) =>
    \A i \in OpenRows(k) :
      LET r   == trader_positions[i]
          pl  == SumPL(trades, markets, TradesOnKey(k))
          tol == BigTimes(ScaleE10(BigOf(r.shares)),
                          Cardinality(TradesOnKey(k)) * slack)
      IN  IF markets[k[2]].winning_outcome = k[3]
          THEN /\ pl[2] = <<>>
               /\ Within(pl[1],
                         ScaleE10(BigMul(BigOf(r.shares),
                                         PriceScale - r.avg_price)),
                         tol)
          ELSE /\ pl[1] = <<>>
               /\ Within(pl[2],
                         ScaleE10(BigMul(BigOf(r.shares), r.avg_price)),
                         tol)

Handles(m) ==
  /\ spc \in {"step2", "step3"}
  /\ m \in todo /\ m \notin todo'

\* C30. Resolved only when closed: a market comes to be resolved only in a
\* step of the sync that handles it with a record saying closed, and a
\* market the sync handles with a record saying not closed, or with no
\* record, keeps its resolved flag and its winning_outcome.
C30_ResolvedOnlyWhenClosed ==
  [][/\ \A m \in DOMAIN markets' :
          (/\ markets'[m].resolved
           /\ ~(m \in DOMAIN markets /\ markets[m].resolved)) =>
            Handles(m) /\ pmMarket'.closed
     /\ \A m \in DOMAIN markets :
          (Handles(m) /\ ~pmMarket'.closed) =>
            m \in DOMAIN markets' /\ markets'[m] = markets[m]]_vars

\* The sync has resolved one market and has just left another unresolved on
\* a record that says not closed while showing a price of 1.
C30_Witness ==
  /\ spc = "step2"
  /\ pmMarket = GammaMarket(FALSE, Json("array", <<10000, 0>>), YesNo)
  /\ \E m1, m2 \in DOMAIN markets :
       /\ markets[m1].resolved
       /\ ~markets[m2].resolved /\ m2 \notin todo
====
